---- MODULE Spec2Model ----
(***************************************************************************)
(* Calendar component of the chat client (frontend/src/Calendar.tsx):      *)
(* the React state of CalendarContent, the localStorage keys it reads and  *)
(* writes, the reminder scan (checkReminders) and the backend-mediated     *)
(* Google session and calendar calls.                                      *)
(*                                                                         *)
(* Calendar days are integers (day 0, day 1, ...); an ISO date string      *)
(* 'YYYY-MM-DD' is the number of its day.  Instants are counted in hours.  *)
(* Event handlers and effects of one React commit are one atomic step:     *)
(* JavaScript runs each to completion, and an effect whose dependencies    *)
(* changed runs right after the render that the handler caused.  An async  *)
(* function is split at each await of a network call.                      *)
(***************************************************************************)
EXTENDS Integers, Sequences, FiniteSets, Bags, TLC

VARIABLES
  events,        \* useState events: the local events (Calendar.tsx:132)
  googleEvents,  \* useState googleEvents: the remote mirror (Calendar.tsx:133)
  user,          \* useState user, "none" for null (Calendar.tsx:135)
  accessToken,   \* useState accessToken, 0 for null (Calendar.tsx:136)
  refreshToken,  \* useState refreshToken, 0 for null (Calendar.tsx:137)
  current,       \* useState current: the displayed month (Calendar.tsx:127)
  kvEvents,      \* localStorage 'calendar_events_v1'
  kvUser,        \* localStorage 'google_user_v1', "none" when absent
  kvAccess,      \* localStorage 'google_access_token_v1', 0 when absent
  kvRefresh,     \* localStorage 'google_refresh_token_v1', 0 when absent
  kvSettings,    \* localStorage 'reminder_settings'
  kvShown,       \* localStorage 'shown_reminders'
  storeMode,     \* "ok" | "writeFail" (setItem throws) | "unavailable" (all throw)
  permission,    \* Notification.permission === 'granted'
  today,         \* the calendar day of new Date()
  tzWest,        \* the local timezone is west of UTC (negative offset)
  dst,           \* "none" | "spring" | "fall": the clock change in the night of DstDay
  nextId,        \* source of fresh ids (Date.now() + random suffix; provider ids)
  tasks,         \* bag of network requests in flight, each with what its continuation captured
  provider,      \* the events held by the remote calendar provider
  notified,      \* history: bag of the notifications constructed so far
  gen,           \* history: number of page loads so far (0 for the first)
  lastScan,      \* history: the last run of checkReminders that reached its end
  nreq,          \* history: number of network requests sent so far
  lastReply,     \* history: the last network reply a continuation handled, the last alert
  messages       \* useState messages of the chat window (App.tsx:669)

vars == <<events, googleEvents, user, accessToken, refreshToken, current,
          kvEvents, kvUser, kvAccess, kvRefresh, kvSettings, kvShown,
          storeMode, permission, today, tzWest, dst, nextId, tasks, provider,
          notified, gen, lastScan, nreq, lastReply, messages>>

----------------------------------------------------------------------------
(* Bounds of the model *)

MaxDay == 2          \* calendar days 0..MaxDay
MaxIds == 2          \* at most this many ids are ever generated
MaxRestarts == 1     \* page reloads
MaxLead == 2         \* stored lead-day settings range over 0..MaxLead
MaxReq == 4          \* network requests sent in one behaviour
DstDay == 1          \* the clock changes in the night that ends day DstDay
MonthLen == 2        \* days in a month of the model
MaxNotified == 3     \* notifications after which the timer is no longer followed

Days == 0..MaxDay

(* Texts a user or the chatbot can enter.  " abgabe " carries surrounding    *)
(* blanks; "Klausur" matches the exam keywords.                              *)
RawTexts == {"Abgabe", " abgabe ", "Klausur"}

\* a task and an exam
ReminderTexts == {"Abgabe", "Klausur"}

\* String.prototype.trim on the texts of the model (Calendar.tsx:875-876)
Trim(t) == IF t = " abgabe " THEN "abgabe" ELSE IF t = " " THEN "" ELSE t

\* /klausur|prüfung|exam|test/i.test(text) on the texts of the model
IsExam(t) == t = "Klausur"

\* the month of a day, as new Date(year, month, 1) identifies it
MonthOf(d) == d \div MonthLen

NoUser == "none"
NoToken == 0

----------------------------------------------------------------------------
(* Sequences *)

Range(s) == {s[i] : i \in 1..Len(s)}

RECURSIVE FilterSeq(_, _)
\* Array.prototype.filter(e => e.id !== id)
FilterSeq(s, id) ==
  IF s = <<>> THEN <<>>
  ELSE IF Head(s).id = id THEN FilterSeq(Tail(s), id)
       ELSE <<Head(s)>> \o FilterSeq(Tail(s), id)

\* every entry gets the text
MapText_All(s, id, text) == [i \in 1..Len(s) |-> [s[i] EXCEPT !.text = text]]

\* Array.prototype.map(e => e.id === id ? { ...e, text } : e)
MapText(s, id, text) ==
  [i \in 1..Len(s) |-> IF s[i].id = id THEN [s[i] EXCEPT !.text = text] ELSE s[i]]

\* Array.prototype.find(e => e.id === id) on an array that holds such an entry
Find(s, id) == s[CHOOSE i \in 1..Len(s) : s[i].id = id /\ \A j \in 1..(i - 1) : s[j].id # id]

\* [...events, ...googleEvents]
allEventsOf(ev, gev) == ev \o gev

allEvents == allEventsOf(events, googleEvents)

----------------------------------------------------------------------------
(* localStorage.  A key is [present, val]; setItem throws in every mode but *)
(* "ok" and the callers swallow the exception.                              *)

Absent == [present |-> FALSE, val |-> <<>>]
Stored(v) == [present |-> TRUE, val |-> v]

\* saveEvents
saveEvents(next) == IF storeMode = "ok" THEN Stored(next) ELSE kvEvents

\* loadEvents: [] when the key is absent or getItem throws
loadEvents == IF storeMode = "unavailable" \/ ~kvEvents.present THEN <<>> ELSE kvEvents.val

\* saveUser / saveAccessToken / saveRefreshToken: a null or empty value removes the key
saveScalar(old, new) == IF storeMode = "ok" THEN new ELSE old

\* loadUser / loadAccessToken / loadRefreshToken: null when getItem throws
loadScalar(stored, null) == IF storeMode = "unavailable" THEN null ELSE stored

----------------------------------------------------------------------------
(* The local clock.  LocalMidnight(d) is the instant, in hours, of 00:00     *)
(* local time on day d: the night of DstDay is 23 hours long when the clock  *)
(* goes forward ("spring") and 25 hours long when it goes back ("fall").     *)

HoursPerDay == 24

LocalMidnight(d) ==
  HoursPerDay * d + (IF d > DstDay
                     THEN (IF dst = "spring" THEN -1 ELSE IF dst = "fall" THEN 1 ELSE 0)
                     ELSE 0)

\* new Date('YYYY-MM-DD') is 00:00 UTC of that day, which west of UTC is
\* still the evening before; setHours(0,0,0,0) then goes to the local
\* midnight of that local day.
eventDate(d) == LocalMidnight(IF tzWest THEN d - 1 ELSE d)

\* Math.ceil(x / 24) for an integer x
CeilDiv(x, n) == -((-x) \div n)

\* diffDays = Math.ceil((eventDate.getTime() - today.getTime()) / 86400000)
diffDays(d) == CeilDiv(eventDate(d) - LocalMidnight(today), HoursPerDay)

----------------------------------------------------------------------------
(* checkReminders *)

\* settings.reminder_days_tasks || 1
taskDays == IF kvSettings.val.tasks = 0 THEN 1 ELSE kvSettings.val.tasks

\* settings.reminder_days_exams || 7
examDays == IF kvSettings.val.exams = 0 THEN 7 ELSE kvSettings.val.exams

\* reminderDays = isExam ? examDays : taskDays
reminderDays(text) == IF IsExam(text) THEN examDays ELSE taskDays

\* if (diffDays === reminderDays || diffDays === 0)
ShouldRemind(diff, lead) == diff = lead \/ diff = 0

\* reminderId = `${ev.date}_${ev.text}_${diffDays}`; the date has a fixed
\* width and diffDays is a number, so the string determines the three parts
reminderId(ev, diff) == <<ev.date, ev.text, diff>>

\* the check of the ledger left out
AlreadyShown_Never(shown, id) == FALSE

\* shownReminders.includes(reminderId)
AlreadyShown(shown, id) == id \in Range(shown)

\* the message selected by diffDays: Heute / Morgen / In N Tagen
Message(ev, diff) ==
  IF diff = 0 THEN [kind |-> "Heute", n |-> diff, text |-> ev.text]
  ELSE IF diff = 1 THEN [kind |-> "Morgen", n |-> diff, text |-> ev.text]
  ELSE [kind |-> "In N Tagen", n |-> diff, text |-> ev.text]

\* what the history records of one new Notification(...), constructed in page load g
Notification(ev, diff, g) ==
  [key |-> reminderId(ev, diff), body |-> Message(ev, diff), day |-> today, gen |-> g]

RECURSIVE ScanLoop(_, _, _, _, _)
\* allEvents.forEach(ev => ...) in page load g: the ledger array and the
\* notifications after the events evs, from the ledger shown and the
\* notifications sent; skip tells whether a reminder was found already shown
ScanLoop(evs, shown, sent, skip, g) ==
  IF evs = <<>> THEN [shown |-> shown, sent |-> sent, skip |-> skip]
  ELSE LET ev == Head(evs)
           diff == diffDays(ev.date)
       IN IF diff < 0
          THEN ScanLoop(Tail(evs), shown, sent, skip, g)
          ELSE IF ShouldRemind(diff, reminderDays(ev.text))
               THEN IF AlreadyShown(shown, reminderId(ev, diff))
                    THEN ScanLoop(Tail(evs), shown, sent, TRUE, g)
                    ELSE ScanLoop(Tail(evs),
                                  Append(shown, reminderId(ev, diff)),
                                  sent (+) SetToBag({Notification(ev, diff, g)}),
                                  skip, g)
               ELSE ScanLoop(Tail(evs), shown, sent, skip, g)

\* the early returns: no notification permission, settings absent or unreadable
ScanReturnsEarly == ~permission \/ storeMode = "unavailable" \/ ~kvSettings.present

\* the stored ledger not read before it is written back
loadShown_Empty == <<>>

\* the ledger as loaded: [] when the key is absent
loadShown == IF kvShown.present THEN kvShown.val ELSE <<>>

\* the ledger not written back
saveShown_Dropped(shown) == kvShown

\* localStorage.setItem('shown_reminders', ...), the exception swallowed
saveShown(shown) == IF storeMode = "ok" THEN Stored(shown) ELSE kvShown

NoScan == [by |-> "none", skip |-> FALSE]

\* the permission is looked at only where the notification is constructed:
\* without it the keys are still pushed and the ledger is written
checkReminders_MarksUnasked(evs, g, by) ==
  IF storeMode = "unavailable" \/ ~kvSettings.present
  THEN [kvShown |-> kvShown, notified |-> notified, lastScan |-> lastScan]
  ELSE LET r == ScanLoop(evs, loadShown, notified, FALSE, g)
       IN [kvShown |-> saveShown(r.shown),
           notified |-> IF permission THEN r.sent ELSE notified,
           lastScan |-> [by |-> by, skip |-> r.skip]]

\* one run of checkReminders over the events evs in page load g, called by
\* the trigger by: the new ledger key and the new history
checkReminders(evs, g, by) ==
  IF ScanReturnsEarly
  THEN [kvShown |-> kvShown, notified |-> notified, lastScan |-> lastScan]
  ELSE LET r == ScanLoop(evs, loadShown, notified, FALSE, g)
       IN [kvShown |-> saveShown(r.shown), notified |-> r.sent,
           lastScan |-> [by |-> by, skip |-> r.skip]]

\* useEffect(..., [checkReminders]): checkReminders is rebuilt, and so run
\* again, after every render in which events or googleEvents was set
RemindersEffect(ev, gev) ==
  LET r == checkReminders(allEventsOf(ev, gev), gen, "effect")
  IN /\ kvShown' = r.kvShown
     /\ notified' = r.notified
     /\ lastScan' = r.lastScan

----------------------------------------------------------------------------
(* Events, the session, requests in flight *)

\* a local id is String(Date.now()) + random suffix; a provider id starts with 'google-'
LocalId(n) == [google |-> FALSE, n |-> n]
GoogleId(n) == [google |-> TRUE, n |-> n]

\* { id, date, text }: a local event carries no source field
LocalEvent(n, date, text) == [id |-> LocalId(n), date |-> date, text |-> text, source |-> "local"]

\* data.event of a create response, an element of data.events of a fetch response
GoogleEvent(n, date, text) == [id |-> GoogleId(n), date |-> date, text |-> text, source |-> "google"]

\* if (user && accessToken)
HasSession == user # NoUser /\ accessToken # NoToken

NoPayload == [events |-> <<>>, token |-> NoToken, rtoken |-> NoToken, settings |-> Absent]

\* a request in flight with what its continuation captured when it was sent:
\* the token sent, the title/date/id of a write, the month and the refresh
\* token of the render whose fetchGoogleCalendarEvents / tryRefreshToken runs;
\* fetches and refreshes count the events requests and the refresh requests
\* that the outermost call of fetchGoogleCalendarEvents has sent, this one included
Task(kind, token, title, date, id, month, rt) ==
  [kind |-> kind, token |-> token, title |-> title, date |-> date, id |-> id,
   month |-> month, rt |-> rt, stage |-> "sent", result |-> "none", payload |-> NoPayload,
   fetches |-> IF kind = "fetch" THEN 1 ELSE 0, refreshes |-> 0]

NoId == LocalId(0)

Send(ts) ==
  /\ nreq + Cardinality(ts) <= MaxReq
  /\ tasks' = tasks (+) SetToBag(ts)
  /\ nreq' = nreq + Cardinality(ts)

\* the events request of fetchGoogleCalendarEvents(token), sent by a render
\* whose current is month and whose refreshToken is rt
FetchTask(token, month, rt) == Task("fetch", token, "", 0, NoId, month, rt)

\* the create request of syncEventToGoogleCalendar(title, date, token)
CreateTask(title, date, token) == Task("create", token, title, date, NoId, current, refreshToken)

----------------------------------------------------------------------------
(* Adding and removing events *)

sessionUnchanged == UNCHANGED <<user, accessToken, refreshToken, current, kvUser, kvAccess, kvRefresh>>
envUnchanged == UNCHANGED <<storeMode, permission, today, tzWest, dst, kvSettings, gen, messages>>
netUnchanged == UNCHANGED <<tasks, provider, nreq, lastReply>>

\* the local branch of addEvent and of window.addCalendarEvent: the new
\* event is appended to base, the array is saved and set, and the render runs
\* the reminders effect
addLocal(base, date, text) ==
  LET next == Append(base, LocalEvent(nextId + 1, date, text))
  IN /\ nextId < MaxIds
     /\ nextId' = nextId + 1
     /\ kvEvents' = saveEvents(next)
     /\ events' = next
     /\ RemindersEffect(next, googleEvents)
     /\ UNCHANGED <<googleEvents, tasks, provider, nreq>>

\* the remote branch: syncEventToGoogleCalendar up to its first await
addRemote(date, text) ==
  /\ Send({CreateTask(text, date, accessToken)})
  /\ UNCHANGED <<events, googleEvents, kvEvents, kvShown, notified, lastScan, nextId, provider>>

\* the event is saved locally whether or not a session is present
addEvent_LocalAlways(date, text) == addLocal(events, date, text)

\* addEvent(dateISO, text)
addEvent(date, text) ==
  IF HasSession THEN addRemote(date, text) ELSE addLocal(events, date, text)

\* the 'Speichern' button of the add modal with one of the texts typed in:
\* addEvent(addModalDay, addModalText.trim())
AddModal(dates, texts) ==
  \E date \in dates, raw \in texts :
    /\ addEvent(date, Trim(raw))
    /\ sessionUnchanged /\ envUnchanged
    /\ UNCHANGED lastReply

AddFromModal == AddModal(Days, RawTexts)

\* a task or an exam is entered in the add modal
AddTaskOrExam == AddModal(Days, ReminderTexts)

\* allEvents.some(ev => ev.date === dateISO && ev.text === text)
isDuplicate(date, text) ==
  \E ev \in Range(allEvents) : ev.date = date /\ ev.text = text

\* window.addCalendarEvent(dateISO, text), called by the chat's suggested-event buttons
addCalendarEvent(date, text) ==
  IF isDuplicate(date, text)
  THEN UNCHANGED <<events, googleEvents, kvEvents, kvShown, notified, lastScan, nextId, tasks, provider, nreq>>
  ELSE IF HasSession THEN addRemote(date, text) ELSE addLocal(loadEvents, date, text)

\* the alert window.addCalendarEvent ends with: 'Dieser Termin existiert
\* bereits ...' for a duplicate, 'Termin hinzugefügt!' in every other case
addCalendarEventAlert(date, text) ==
  IF isDuplicate(date, text) THEN "duplicate" ELSE "added"

AddChat(dates, texts) ==
  \E date \in dates, text \in texts :
    /\ addCalendarEvent(date, text)
    /\ lastReply' = <<"add", addCalendarEventAlert(date, text)>>
    /\ sessionUnchanged /\ envUnchanged

AddFromChat == AddChat(Days, RawTexts)

\* the local branch of removeEvent(id)
removeLocal(id) ==
  LET next == FilterSeq(events, id)
  IN /\ kvEvents' = saveEvents(next)
     /\ events' = next
     /\ RemindersEffect(next, googleEvents)
     /\ UNCHANGED <<googleEvents, nextId, tasks, provider, nreq>>

\* removeEvent(id) of an event shown in the day list, local ids only
RemoveLocal ==
  \E ev \in Range(events) :
    /\ ~ev.id.google
    /\ removeLocal(ev.id)
    /\ sessionUnchanged /\ envUnchanged
    /\ UNCHANGED lastReply

----------------------------------------------------------------------------
(* Reminder triggers, the clock, the settings, page reloads *)

scanOnly(by) ==
  LET r == checkReminders(allEvents, gen, by)
  IN /\ kvShown' = r.kvShown
     /\ notified' = r.notified
     /\ lastScan' = r.lastScan
     /\ UNCHANGED <<events, googleEvents, kvEvents, nextId>>
     /\ sessionUnchanged /\ envUnchanged /\ netUnchanged

\* setInterval(checkReminders, 60 * 60 * 1000)
TimerTick == scanOnly("timer")

\* the 'Jetzt erinnern' button
ManualReminder == scanOnly("manual")

\* midnight passes; no scan has run yet on the new day
AdvanceDay ==
  /\ today < MaxDay
  /\ today' = today + 1
  /\ lastScan' = NoScan
  /\ UNCHANGED <<events, googleEvents, kvEvents, kvShown, notified, nextId,
                 storeMode, permission, tzWest, dst, kvSettings, gen, messages>>
  /\ sessionUnchanged /\ netUnchanged

\* App.tsx sendMessage: localStorage.setItem('reminder_settings', ...) with
\* the settings the chat backend returned; no scan has run yet with them
writeSettings(t, e) ==
    /\ kvSettings' = IF storeMode = "ok" THEN Stored([tasks |-> t, exams |-> e]) ELSE kvSettings
    /\ lastScan' = NoScan
    /\ UNCHANGED <<events, googleEvents, kvEvents, kvShown, notified, nextId,
                   storeMode, permission, today, tzWest, dst, gen, messages>>
    /\ sessionUnchanged /\ netUnchanged

\* the backend returns a task lead time and no exam lead time or the longest one
WriteSettings == \E t \in 0..MaxLead, e \in {0, MaxLead} : writeSettings(t, e)

\* the backend returns any pair of lead times
WriteAnySettings == \E t \in 0..MaxLead, e \in 0..MaxLead : writeSettings(t, e)

\* the user answers Notification.requestPermission() with 'granted'
GrantPermission ==
  /\ ~permission
  /\ permission' = TRUE
  /\ UNCHANGED <<lastScan, events, googleEvents, kvEvents, kvShown, notified, nextId,
                 storeMode, today, tzWest, dst, kvSettings, gen, messages>>
  /\ sessionUnchanged /\ netUnchanged

\* the page is loaded again: the state is initialised from localStorage, the
\* requests in flight are abandoned, and the mount effects run: checkReminders,
\* and fetchGoogleCalendarEvents when a session was stored
Restart ==
  LET ev == loadEvents
      u == loadScalar(kvUser, NoUser)
      at == loadScalar(kvAccess, NoToken)
      rt == loadScalar(kvRefresh, NoToken)
      r == checkReminders(ev, gen + 1, "startup")
      fetches == IF u # NoUser /\ at # NoToken THEN {FetchTask(at, MonthOf(today), rt)} ELSE {}
  IN /\ gen < MaxRestarts
     /\ gen' = gen + 1
     /\ events' = ev
     /\ googleEvents' = <<>>
     /\ user' = u
     /\ accessToken' = at
     /\ refreshToken' = rt
     /\ current' = MonthOf(today)
     /\ kvShown' = r.kvShown
     /\ notified' = r.notified
     /\ lastScan' = r.lastScan
     /\ nreq + Cardinality(fetches) <= MaxReq
     /\ nreq' = nreq + Cardinality(fetches)
     /\ tasks' = SetToBag(fetches)
     /\ lastReply' = <<"none", "none">>
     /\ messages' = <<>>
     /\ UNCHANGED <<kvEvents, kvUser, kvAccess, kvRefresh, kvSettings, storeMode,
                    permission, today, tzWest, dst, nextId, provider>>

----------------------------------------------------------------------------
(* The calendar used while signed out, with its reminders *)

\* the first load of the page in a fresh browser profile, in any timezone
Init ==
  /\ events = <<>> /\ googleEvents = <<>>
  /\ user = NoUser /\ accessToken = NoToken /\ refreshToken = NoToken
  /\ current = MonthOf(0)
  /\ kvEvents = Absent /\ kvUser = NoUser /\ kvAccess = NoToken /\ kvRefresh = NoToken
  /\ kvSettings = Absent /\ kvShown = Absent
  /\ storeMode = "ok"
  /\ permission = FALSE
  /\ today = 0
  /\ tzWest \in BOOLEAN
  /\ dst \in {"none", "spring", "fall"}
  /\ nextId = 0
  /\ tasks = EmptyBag
  /\ provider = <<>>
  /\ notified = EmptyBag
  /\ gen = 0 /\ nreq = 0
  /\ lastScan = NoScan
  /\ lastReply = <<"none", "none">>
  /\ messages = <<>>

Next ==
  \/ AddTaskOrExam
  \/ RemoveLocal
  \/ TimerTick
  \/ ManualReminder
  \/ AdvanceDay
  \/ WriteSettings
  \/ GrantPermission
  \/ Restart

Spec == Init /\ [][Next]_vars

----------------------------------------------------------------------------
(* The calendar used while signed out, without notification permission *)

InitLocal == Init /\ ~tzWest /\ dst = "none"

NextLocal ==
  \/ AddFromModal
  \/ AddFromChat
  \/ RemoveLocal
  \/ Restart

SpecLocal == InitLocal /\ [][NextLocal]_vars

----------------------------------------------------------------------------
(* The reminders of the calendar used while signed out, in a timezone       *)
(* without clock changes and not west of UTC, with every pair of lead times *)

NextLead ==
  \/ AddTaskOrExam
  \/ TimerTick
  \/ AdvanceDay
  \/ WriteAnySettings
  \/ GrantPermission

SpecLead == InitLocal /\ [][NextLead]_vars

----------------------------------------------------------------------------
(* The calendar used while signed out when localStorage stops working:      *)
(* setItem throws (quota exceeded) or every access throws                   *)

StoreBreaks ==
  /\ storeMode = "ok"
  /\ storeMode' \in {"writeFail", "unavailable"}
  /\ UNCHANGED <<events, googleEvents, kvEvents, kvShown, notified, lastScan, nextId,
                 permission, today, tzWest, dst, kvSettings, gen, messages>>
  /\ sessionUnchanged /\ netUnchanged

\* the chatbot suggests a task or an exam
AddChatTaskOrExam == AddChat(Days, ReminderTexts)

\* a timer tick, followed while few notifications have been constructed
TimerTickFew == BagCardinality(notified) < MaxNotified /\ TimerTick

NextStore ==
  \/ AddTaskOrExam
  \/ AddChatTaskOrExam
  \/ TimerTickFew
  \/ WriteSettings
  \/ GrantPermission
  \/ StoreBreaks

SpecStore == InitLocal /\ [][NextStore]_vars

----------------------------------------------------------------------------
(* Scans over several days with lead times that stay as they were stored   *)
(* in an earlier visit, notification permission granted                     *)

InitDays ==
  /\ events = <<>> /\ googleEvents = <<>>
  /\ user = NoUser /\ accessToken = NoToken /\ refreshToken = NoToken
  /\ current = MonthOf(0)
  /\ kvEvents = Absent /\ kvUser = NoUser /\ kvAccess = NoToken /\ kvRefresh = NoToken
  /\ \E t \in 0..MaxLead, e \in 0..MaxLead : kvSettings = Stored([tasks |-> t, exams |-> e])
  /\ kvShown = Absent
  /\ storeMode = "ok"
  /\ permission = TRUE
  /\ today = 0
  /\ tzWest = FALSE
  /\ dst = "none"
  /\ nextId = 0
  /\ tasks = EmptyBag
  /\ provider = <<>>
  /\ notified = EmptyBag
  /\ gen = 0 /\ nreq = 0
  /\ lastScan = NoScan
  /\ lastReply = <<"none", "none">>
  /\ messages = <<>>

NextDays ==
  \/ AddTaskOrExam
  \/ TimerTick
  \/ AdvanceDay
  \/ Restart

SpecDays == InitDays /\ [][NextDays]_vars

----------------------------------------------------------------------------
(* The Google session and the requests to the backend *)

\* the requests that are followed up to their answer: MaxReq of them, and
\* one more when it is sent by the continuation of a retried events request
Followed(t) == MaxReq + (IF t.kind = "fetch" /\ t.fetches >= 2 THEN 1 ELSE 0)

\* the request t leaves the bag and the requests of the bag new are sent;
\* beyond Followed(t) requests the new ones are sent and never answered
Continue(t, new) ==
  /\ nreq' = nreq + BagCardinality(new)
  /\ tasks' = IF nreq + BagCardinality(new) <= Followed(t)
              THEN (tasks (-) SetToBag({t})) (+) new
              ELSE tasks (-) SetToBag({t})

One(t) == SetToBag({t})

\* useEffect(..., [current, accessToken, user]) of the render with the session
\* (u, at), the month m and the refresh token rt: the fetch it sends
FetchEffect(u, at, m, rt) ==
  IF at # NoToken /\ u # NoUser THEN One(FetchTask(at, m, rt)) ELSE EmptyBag

\* the events of the provider that overlap the month m
RECURSIVE EventsOfMonth(_, _)
EventsOfMonth(evs, m) ==
  IF evs = <<>> THEN <<>>
  ELSE IF MonthOf(Head(evs).date) = m
       THEN <<Head(evs)>> \o EventsOfMonth(Tail(evs), m)
       ELSE EventsOfMonth(Tail(evs), m)

\* res.data.settings and res.data.suggested_events of a chat response that
\* carries them
ChatSettings == Stored([tasks |-> 1, exams |-> MaxLead])
SuggestedEvents == <<[date |-> 0, title |-> "Klausur"]>>

\* the outcomes of a request: 200 with success true, 200 with success false,
\* a status that is not OK, no response at all
Results == {"ok", "successFalse", "notOk", "network"}

Failed(t) == t.result \in {"notOk", "network"}

\* the backend answers the request t of the bag
Serve(t, result) ==
  LET fresh == nextId + 1
      reply(payload) == [t EXCEPT !.stage = "replied", !.result = result, !.payload = payload]
  IN /\ t.stage = "sent"
     /\ IF result # "ok"
        THEN /\ tasks' = (tasks (-) One(t)) (+) One(reply(NoPayload))
             /\ UNCHANGED <<provider, nextId>>
        ELSE CASE t.kind = "login" ->
                    \E withRefresh \in BOOLEAN :
                      /\ tasks' = (tasks (-) One(t)) (+)
                           One(reply([NoPayload EXCEPT !.token = fresh,
                                        !.rtoken = IF withRefresh THEN fresh ELSE NoToken]))
                      /\ nextId' = fresh
                      /\ UNCHANGED provider
               [] t.kind = "refresh" ->
                    /\ tasks' = (tasks (-) One(t)) (+) One(reply([NoPayload EXCEPT !.token = fresh]))
                    /\ nextId' = fresh
                    /\ UNCHANGED provider
               [] t.kind = "fetch" ->
                    /\ tasks' = (tasks (-) One(t)) (+)
                         One(reply([NoPayload EXCEPT !.events = EventsOfMonth(provider, t.month)]))
                    /\ UNCHANGED <<provider, nextId>>
               [] t.kind = "create" ->
                    LET ev == GoogleEvent(fresh, t.date, t.title)
                    IN /\ provider' = Append(provider, ev)
                       /\ nextId' = fresh
                       /\ tasks' = (tasks (-) One(t)) (+) One(reply([NoPayload EXCEPT !.events = <<ev>>]))
               [] t.kind = "delete" ->
                    /\ provider' = FilterSeq(provider, t.id)
                    /\ tasks' = (tasks (-) One(t)) (+) One(reply(NoPayload))
                    /\ UNCHANGED nextId
               [] t.kind = "chat" ->
                    \E withSettings \in BOOLEAN, withEvents \in BOOLEAN :
                      /\ tasks' = (tasks (-) One(t)) (+)
                           One(reply([NoPayload EXCEPT
                                        !.settings = IF withSettings THEN ChatSettings ELSE Absent,
                                        !.events = IF withEvents THEN SuggestedEvents ELSE <<>>]))
                      /\ UNCHANGED <<provider, nextId>>
               [] t.kind = "update" ->
                    /\ provider' = [i \in 1..Len(provider) |->
                                      IF provider[i].id = t.id
                                      THEN [provider[i] EXCEPT !.text = t.title, !.date = t.date]
                                      ELSE provider[i]]
                    /\ tasks' = (tasks (-) One(t)) (+) One(reply(NoPayload))
                    /\ UNCHANGED nextId

BackendAnswers ==
  \E t \in BagToSet(tasks), result \in Results :
    /\ Serve(t, result)
    /\ UNCHANGED <<events, googleEvents, kvEvents, kvShown, notified, lastScan, nreq, lastReply>>
    /\ sessionUnchanged /\ envUnchanged

\* handleLogout, and the render after it: the reminders effect runs, the
\* fetch effect finds no session
handleLogout ==
  /\ user' = NoUser
  /\ kvUser' = saveScalar(kvUser, NoUser)
  /\ accessToken' = NoToken
  /\ kvAccess' = saveScalar(kvAccess, NoToken)
  /\ refreshToken' = NoToken
  /\ kvRefresh' = saveScalar(kvRefresh, NoToken)
  /\ googleEvents' = <<>>
  /\ RemindersEffect(events, <<>>)

\* the 'Abmelden' button clears the session and leaves the mirror
Logout_KeepsMirror ==
  /\ user # NoUser
  /\ user' = NoUser /\ kvUser' = saveScalar(kvUser, NoUser)
  /\ accessToken' = NoToken /\ kvAccess' = saveScalar(kvAccess, NoToken)
  /\ refreshToken' = NoToken /\ kvRefresh' = saveScalar(kvRefresh, NoToken)
  /\ UNCHANGED <<googleEvents, kvShown, notified, lastScan, events, kvEvents, current, nextId>>
  /\ envUnchanged /\ netUnchanged

\* the 'Abmelden' button
Logout ==
  /\ user # NoUser
  /\ handleLogout
  /\ UNCHANGED <<events, kvEvents, current, nextId>>
  /\ envUnchanged /\ netUnchanged

\* the 'Mit Google anmelden' button and the consent screen: handleGoogleSuccess
\* up to the token exchange request
LoginStart ==
  /\ user = NoUser
  /\ Send({Task("login", NoToken, "", 0, NoId, current, refreshToken)})
  /\ UNCHANGED <<events, googleEvents, kvEvents, kvShown, notified, lastScan, nextId,
                 provider, lastReply>>
  /\ sessionUnchanged /\ envUnchanged

\* the user the token exchange names
TheUser == "user@example.org"

\* the catch block of handleGoogleSuccess clears what is left of a session
loginFailed_ClearsSession(t) ==
  /\ Continue(t, EmptyBag)
  /\ handleLogout

\* the catch block of handleGoogleSuccess: the failure is logged and shown
\* in an alert
loginFailed(t) ==
  /\ Continue(t, EmptyBag)
  /\ UNCHANGED <<user, kvUser, accessToken, kvAccess, refreshToken, kvRefresh,
                 googleEvents, kvShown, notified, lastScan>>

\* the consent screen returns no authorization code: handleGoogleSuccess
\* throws before the token exchange and its catch block shows the alert
LoginNoCode ==
  /\ user = NoUser
  /\ lastReply' = <<"login", "noCode">>
  /\ UNCHANGED <<events, googleEvents, kvEvents, kvShown, notified, lastScan, nextId,
                 tasks, provider, nreq>>
  /\ sessionUnchanged /\ envUnchanged

\* handleGoogleSuccess after the token exchange
LoginReply ==
  \E t \in BagToSet(tasks) :
    /\ t.kind = "login" /\ t.stage = "replied"
    /\ lastReply' = <<"login", t.result>>
    /\ IF t.result = "ok"
       THEN LET at == t.payload.token
                rt == IF t.payload.rtoken # NoToken THEN t.payload.rtoken ELSE refreshToken
            IN /\ user' = TheUser
               /\ kvUser' = saveScalar(kvUser, TheUser)
               /\ accessToken' = at
               /\ kvAccess' = saveScalar(kvAccess, at)
               /\ refreshToken' = rt
               /\ kvRefresh' = IF t.payload.rtoken # NoToken
                               THEN saveScalar(kvRefresh, t.payload.rtoken) ELSE kvRefresh
               /\ Continue(t, One(FetchTask(at, t.month, t.rt)) (+) FetchEffect(TheUser, at, current, rt))
               /\ UNCHANGED <<googleEvents, kvShown, notified, lastScan>>
       ELSE loginFailed(t)
    /\ UNCHANGED <<events, kvEvents, nextId, provider, current>>
    /\ envUnchanged

\* tryRefreshToken() of the render whose refresh token is t.rt, called by
\* the continuation of the request t: the refresh request it sends
tryRefreshToken(t) ==
  IF t.rt = NoToken THEN EmptyBag
  ELSE One([Task("refresh", NoToken, "", 0, NoId, t.month, t.rt)
              EXCEPT !.fetches = t.fetches, !.refreshes = t.refreshes + 1])

\* the response is appended to the mirror
fetchSucceeded_Merges(t) ==
  LET next == googleEvents \o t.payload.events
  IN /\ googleEvents' = next
     /\ RemindersEffect(events, next)
     /\ Continue(t, EmptyBag)

\* the response is used only while the mirror is empty
fetchSucceeded_KeepsPrevious(t) ==
  LET next == IF googleEvents = <<>> THEN t.payload.events ELSE googleEvents
  IN /\ googleEvents' = next
     /\ RemindersEffect(events, next)
     /\ Continue(t, EmptyBag)

\* fetchGoogleCalendarEvents after a response with success true:
\* setGoogleEvents(data.events)
fetchSucceeded(t) ==
  /\ googleEvents' = t.payload.events
  /\ RemindersEffect(events, t.payload.events)
  /\ Continue(t, EmptyBag)

\* the catch block of fetchGoogleCalendarEvents (a status that is not OK, no
\* response), and a response with success false, which does nothing
fetchFailed(t) ==
  /\ Continue(t, IF Failed(t) /\ t.rt # NoToken THEN tryRefreshToken(t) ELSE EmptyBag)
  /\ UNCHANGED <<googleEvents, kvShown, notified, lastScan>>

\* fetchGoogleCalendarEvents after the events request t
fetchReply(t) ==
  /\ t.kind = "fetch" /\ t.stage = "replied"
  /\ lastReply' = <<"fetch", t.result>>
  /\ IF t.result = "ok" THEN fetchSucceeded(t) ELSE fetchFailed(t)
  /\ UNCHANGED <<events, kvEvents, nextId, provider>>
  /\ sessionUnchanged /\ envUnchanged

\* fetchGoogleCalendarEvents after the events request
FetchReply == \E t \in BagToSet(tasks) : fetchReply(t)

\* tryRefreshToken after the refresh request t
refreshReply(t) ==
    /\ t.kind = "refresh" /\ t.stage = "replied"
    /\ lastReply' = <<"refresh", t.result>>
    /\ IF t.result = "ok"
       THEN LET at == t.payload.token
            IN /\ accessToken' = at
               /\ kvAccess' = saveScalar(kvAccess, at)
               /\ Continue(t, One([FetchTask(at, t.month, t.rt)
                                      EXCEPT !.fetches = t.fetches + 1,
                                             !.refreshes = t.refreshes]) (+)
                              (IF at # accessToken
                               THEN FetchEffect(user, at, current, refreshToken)
                               ELSE EmptyBag))
               /\ UNCHANGED <<user, kvUser, refreshToken, kvRefresh, googleEvents,
                              kvShown, notified, lastScan>>
       ELSE IF Failed(t)
            THEN /\ handleLogout
                 /\ Continue(t, EmptyBag)
            ELSE /\ Continue(t, EmptyBag)
                 /\ UNCHANGED <<user, kvUser, accessToken, kvAccess, refreshToken, kvRefresh,
                                googleEvents, kvShown, notified, lastScan>>
    /\ UNCHANGED <<events, kvEvents, nextId, provider, current>>
    /\ envUnchanged

\* tryRefreshToken after the refresh request
RefreshReply == \E t \in BagToSet(tasks) : refreshReply(t)

\* the failed event is saved locally instead, as the warning in the catch
\* block says
syncFailed_SavedLocally(t) ==
  LET next == Append(events, LocalEvent(nextId + 1, t.date, t.title))
  IN /\ Continue(t, EmptyBag)
     /\ events' = next
     /\ kvEvents' = saveEvents(next)
     /\ RemindersEffect(next, googleEvents)
     /\ UNCHANGED googleEvents

\* the catch block of syncEventToGoogleCalendar and its success-false branch:
\* the failure is logged
syncFailed(t) ==
  /\ Continue(t, EmptyBag)
  /\ UNCHANGED <<events, googleEvents, kvEvents, kvShown, notified, lastScan>>

\* syncEventToGoogleCalendar after a create request that succeeded:
\* setGoogleEvents(prev => [...prev, data.event])
syncSucceeded(t) ==
  LET next == googleEvents \o t.payload.events
  IN /\ googleEvents' = next
     /\ RemindersEffect(events, next)
     /\ Continue(t, EmptyBag)
     /\ UNCHANGED <<events, kvEvents>>

\* syncEventToGoogleCalendar after the create request
CreateReply ==
  \E t \in BagToSet(tasks) :
    /\ t.kind = "create" /\ t.stage = "replied"
    /\ lastReply' = <<"create", t.result>>
    /\ IF t.result = "ok" THEN syncSucceeded(t) ELSE syncFailed(t)
    /\ UNCHANGED <<nextId, provider>>
    /\ sessionUnchanged /\ envUnchanged

\* prevMonth / nextMonth, and the fetch effect of the render after it
ChangeMonth ==
  \E m \in {current - 1, current + 1} :
    /\ m \in 0..MonthOf(MaxDay)
    /\ current' = m
    /\ Send(BagToSet(FetchEffect(user, accessToken, m, refreshToken)))
    /\ UNCHANGED <<events, googleEvents, kvEvents, kvShown, notified, lastScan, nextId,
                   provider, lastReply>>
    /\ UNCHANGED <<user, accessToken, refreshToken, kvUser, kvAccess, kvRefresh>>
    /\ envUnchanged

\* the dates and texts entered while the session is exercised
SessionDays == {0, MaxDay}
SessionTexts == {"Abgabe"}

AddFromModalSession == AddModal(SessionDays, SessionTexts)
AddFromChatSession == AddChat(SessionDays, SessionTexts)

NextSession ==
  \/ LoginStart
  \/ Logout
  \/ AddFromModalSession
  \/ AddFromChatSession
  \/ ChangeMonth
  \/ BackendAnswers
  \/ LoginReply
  \/ FetchReply
  \/ RefreshReply
  \/ CreateReply

SpecSession == InitLocal /\ [][NextSession]_vars

----------------------------------------------------------------------------
(* A page loaded with a stored Google session: the mirror, its refetches,   *)
(* logout and login again, removal of mirrored events                       *)

\* the entry is filtered out of the mirror as soon as the request is sent
removeGoogle_Optimistic(id) ==
  LET next == FilterSeq(googleEvents, id)
  IN /\ Send({Task("delete", accessToken, "", 0, id, current, refreshToken)})
     /\ googleEvents' = next
     /\ RemindersEffect(events, next)
     /\ UNCHANGED lastReply

\* the branch of removeEvent(id) for an id that starts with 'google-':
\* the alert without a session, else deleteGoogleEvent up to its await
removeGoogle(id) ==
  IF ~HasSession
  THEN /\ lastReply' = <<"delete", "requiresAuth">>
       /\ UNCHANGED <<googleEvents, kvShown, notified, lastScan, tasks, nreq>>
  ELSE /\ Send({Task("delete", accessToken, "", 0, id, current, refreshToken)})
       /\ UNCHANGED <<googleEvents, kvShown, notified, lastScan, lastReply>>

\* the delete button of a mirrored event in the day list of the displayed month
RemoveGoogle ==
  \E ev \in Range(googleEvents) :
    /\ MonthOf(ev.date) = current
    /\ removeGoogle(ev.id)
    /\ UNCHANGED <<events, kvEvents, nextId, provider>>
    /\ sessionUnchanged /\ envUnchanged

\* the data.success branch of deleteGoogleEvent: the entry leaves the mirror
deleteSucceeded(t) ==
  LET next == FilterSeq(googleEvents, t.id)
  IN /\ Continue(t, EmptyBag)
     /\ googleEvents' = next
     /\ RemindersEffect(events, next)

\* the failed delete request is sent once more
deleteFailed_Retries(t) ==
  /\ Continue(t, One(Task("delete", t.token, "", 0, t.id, t.month, t.rt)))
  /\ UNCHANGED <<googleEvents, kvShown, notified, lastScan>>

\* the other ways out of deleteGoogleEvent (a status that is not OK, success
\* false, the catch block): an alert and nothing else
deleteFailed(t) ==
  /\ Continue(t, EmptyBag)
  /\ UNCHANGED <<googleEvents, kvShown, notified, lastScan>>

\* deleteGoogleEvent after the delete request t
deleteReply(t) ==
  /\ t.kind = "delete" /\ t.stage = "replied"
  /\ lastReply' = <<"delete", t.result>>
  /\ IF t.result = "ok" THEN deleteSucceeded(t) ELSE deleteFailed(t)
  /\ UNCHANGED <<events, kvEvents, nextId, provider>>
  /\ sessionUnchanged /\ envUnchanged

DeleteReply == \E t \in BagToSet(tasks) : deleteReply(t)

\* the token of the stored session
StoredToken == 1

\* the events the provider holds when the page is loaded: one in the
\* displayed month, one in the last month
StoredProvider == <<GoogleEvent(2, 0, "Klausur"), GoogleEvent(3, MaxDay, "Abgabe")>>

\* the page is loaded with a session in localStorage, with or without a
\* refresh token, and with or without a local event: the initial state is
\* read from the store and the mount effect has sent the events request
InitMirror ==
  /\ \E withLocal \in BOOLEAN :
       /\ events = (IF withLocal THEN <<LocalEvent(4, 0, "Abgabe")>> ELSE <<>>)
       /\ kvEvents = (IF withLocal THEN Stored(<<LocalEvent(4, 0, "Abgabe")>>) ELSE Absent)
  /\ googleEvents = <<>>
  /\ user = TheUser /\ kvUser = TheUser
  /\ accessToken = StoredToken /\ kvAccess = StoredToken
  /\ refreshToken \in {NoToken, StoredToken} /\ kvRefresh = refreshToken
  /\ current = MonthOf(0)
  /\ kvSettings = Absent /\ kvShown = Absent
  /\ storeMode = "ok"
  /\ permission = FALSE
  /\ today = 0
  /\ tzWest = FALSE
  /\ dst = "none"
  /\ nextId = 4
  /\ tasks = One(FetchTask(accessToken, current, refreshToken))
  /\ provider = StoredProvider
  /\ notified = EmptyBag
  /\ gen = 0 /\ nreq = 1
  /\ lastScan = NoScan
  /\ lastReply = <<"none", "none">>
  /\ messages = <<>>

NextMirror ==
  \/ Logout
  \/ LoginStart
  \/ LoginNoCode
  \/ ChangeMonth
  \/ RemoveGoogle
  \/ BackendAnswers
  \/ LoginReply
  \/ FetchReply
  \/ RefreshReply
  \/ DeleteReply

SpecMirror == InitMirror /\ [][NextMirror]_vars

----------------------------------------------------------------------------
(* Editing the text of an event: the edit modal of the day list *)

\* the texts typed into the edit modal: a blank one and a new title
EditTexts == {" ", "Referat"}

\* the edited array is set and not saved
editLocal_Unsaved(id, text) ==
  LET next == MapText(events, id, text)
  IN /\ events' = next
     /\ RemindersEffect(next, googleEvents)
     /\ UNCHANGED <<kvEvents, googleEvents, nextId, tasks, provider, nreq, lastReply>>

\* the local branch of saveEditEvent
editLocal(id, text) ==
  LET next == MapText(events, id, text)
  IN /\ kvEvents' = saveEvents(next)
     /\ events' = next
     /\ RemindersEffect(next, googleEvents)
     /\ UNCHANGED <<googleEvents, nextId, tasks, provider, nreq, lastReply>>

\* the branch of saveEditEvent for an id that starts with 'google-', up to
\* its await: the alert without a session, the return when the mirror does
\* not hold the event, else the update request with the date of the mirror
editGoogle(id, text) ==
  /\ IF ~HasSession
     THEN /\ lastReply' = <<"update", "requiresAuth">>
          /\ UNCHANGED <<tasks, nreq>>
     ELSE IF \A e \in Range(googleEvents) : e.id # id
          THEN UNCHANGED <<tasks, nreq, lastReply>>
          ELSE /\ Send({Task("update", accessToken, text, Find(googleEvents, id).date, id,
                              current, refreshToken)})
               /\ UNCHANGED lastReply
  /\ UNCHANGED <<events, googleEvents, kvEvents, kvShown, notified, lastScan, nextId, provider>>

\* saveEditEvent with editingEventId = id and editingEventText = text
saveEditEvent(id, text) ==
  IF Trim(text) = ""
  THEN UNCHANGED <<events, googleEvents, kvEvents, kvShown, notified, lastScan, nextId,
                   tasks, provider, nreq, lastReply>>
  ELSE IF id.google THEN editGoogle(id, text) ELSE editLocal(id, text)

\* the edit button of an event of the day list (a mirrored event is listed
\* in the displayed month), a text typed in, and 'Speichern'
SaveEdit ==
  \E ev \in Range(allEvents), text \in EditTexts :
    /\ ev.id.google => MonthOf(ev.date) = current
    /\ saveEditEvent(ev.id, text)
    /\ sessionUnchanged /\ envUnchanged

\* the data.success branch of saveEditEvent: the entry of the mirror gets the text
updateSucceeded(t) ==
  LET next == MapText(googleEvents, t.id, t.title)
  IN /\ Continue(t, EmptyBag)
     /\ googleEvents' = next
     /\ RemindersEffect(events, next)

\* the other ways out after the update request: an alert, or nothing
updateFailed(t) ==
  /\ Continue(t, EmptyBag)
  /\ UNCHANGED <<googleEvents, kvShown, notified, lastScan>>

\* saveEditEvent after the update request t
updateReply(t) ==
  /\ t.kind = "update" /\ t.stage = "replied"
  /\ lastReply' = <<"update", t.result>>
  /\ IF t.result = "ok" THEN updateSucceeded(t) ELSE updateFailed(t)
  /\ UNCHANGED <<events, kvEvents, nextId, provider>>
  /\ sessionUnchanged /\ envUnchanged

UpdateReply == \E t \in BagToSet(tasks) : updateReply(t)

\* a page loaded with a stored session, on which events are edited
NextEdit ==
  \/ SaveEdit
  \/ AddFromChatSession
  \/ Logout
  \/ BackendAnswers
  \/ FetchReply
  \/ RefreshReply
  \/ CreateReply
  \/ UpdateReply

SpecEdit == InitMirror /\ [][NextEdit]_vars

\* the calendar used while signed out, with the edit modal
NextLocalEdit ==
  \/ AddFromModal
  \/ AddFromChat
  \/ RemoveLocal
  \/ SaveEdit
  \/ Restart

SpecLocalEdit == InitLocal /\ [][NextLocalEdit]_vars

----------------------------------------------------------------------------
(* The chat window: sendMessage of App.tsx, with the API key set *)

\* the texts typed into the input field: a blank one and two messages
ChatTexts == {" ", "Hallo", "Termine"}

UserMessage(text) == [sender |-> "user", kind |-> "text", text |-> text]
\* the bot bubble with the typing indicator
Typing == [sender |-> "bot", kind |-> "typing", text |-> ""]
\* the bot bubble with res.data.response, the answer to the message text
BotReply(text) == [sender |-> "bot", kind |-> "reply", text |-> text]
\* 'Fehler beim Server.'
ErrorReply == [sender |-> "bot", kind |-> "error", text |-> ""]
\* 'Welche Termine soll ich zum Kalender hinzufügen?' with its buttons
SuggestionMessage == [sender |-> "bot", kind |-> "suggestions", text |-> ""]

\* prev.slice(0, -1)
DropLast(s) == IF s = <<>> THEN <<>> ELSE SubSeq(s, 1, Len(s) - 1)

\* sendMessage up to its await: the user message and the typing indicator
\* are appended and the chat request is sent
sendMessage(text) ==
  IF Trim(text) = ""
  THEN UNCHANGED <<messages, tasks, nreq>>
  ELSE /\ messages' = messages \o <<UserMessage(text), Typing>>
       /\ Send({Task("chat", NoToken, text, 0, NoId, current, refreshToken)})

\* the 'Senden' button or the Enter key
SendMessage ==
  \E text \in ChatTexts :
    /\ sendMessage(text)
    /\ UNCHANGED <<events, googleEvents, kvEvents, kvShown, notified, lastScan, nextId,
                   provider, lastReply, storeMode, permission, today, tzWest, dst,
                   kvSettings, gen>>
    /\ sessionUnchanged

\* setMessages(prev => [...prev.slice(0, -1), ...new]): the last message is
\* dropped and new is appended
replaceTyping(msgs, new) == DropLast(msgs) \o new

\* sendMessage after the chat request t: the response with a text, the
\* response without one, the catch block; then the settings and the
\* suggested events of the response
chatReply(t) ==
  LET answered == IF Failed(t) THEN replaceTyping(messages, <<ErrorReply>>)
                  ELSE IF t.result = "ok" THEN replaceTyping(messages, <<BotReply(t.title)>>)
                  ELSE replaceTyping(messages, <<>>)
      saved == ~Failed(t) /\ t.payload.settings.present /\ storeMode = "ok"
  IN /\ t.kind = "chat" /\ t.stage = "replied"
     /\ lastReply' = <<"chat", t.result>>
     /\ Continue(t, EmptyBag)
     /\ messages' = IF ~Failed(t) /\ t.payload.events # <<>>
                    THEN Append(answered, SuggestionMessage) ELSE answered
     /\ kvSettings' = IF saved THEN t.payload.settings ELSE kvSettings
     /\ lastScan' = IF saved THEN NoScan ELSE lastScan
     /\ UNCHANGED <<events, googleEvents, kvEvents, kvShown, notified, nextId, provider,
                    storeMode, permission, today, tzWest, dst, gen>>
     /\ sessionUnchanged

ChatReply == \E t \in BagToSet(tasks) : chatReply(t)

NextChat ==
  \/ SendMessage
  \/ BackendAnswers
  \/ ChatReply

SpecChat == InitLocal /\ [][NextChat]_vars

----------------------------------------------------------------------------
(* Reminder properties, under Spec *)

\* the events of list() whose lead time is the task lead time
IsTask(ev) == ~IsExam(ev.text)

\* the notifications dispatched so far for the reminder key k
Dispatched(k) == {n \in BagToSet(notified) : n.key = k}

\* how many notifications were dispatched for the key k
DispatchCount(k) ==
  IF Dispatched(k) = {} THEN 0
  ELSE BagCardinality([n \in Dispatched(k) |-> CopiesIn(n, notified)])

\* a scan has run to its end today, with today's settings and events
ScannedToday == lastScan.by # "none"

\* C3: once a scan has run today, a task event of list() dated
\* today + taskLeadDays has exactly one notification for its key
\* (date, text, taskLeadDays): the first scan dispatched it and no later
\* scan of the same day dispatched another.
C3_TaskLeadExactlyOnce ==
  ScannedToday =>
    \A ev \in Range(allEvents) :
      IsTask(ev) /\ ev.date = today + kvSettings.val.tasks =>
        DispatchCount(<<ev.date, ev.text, kvSettings.val.tasks>>) = 1

\* C4: whatever the order of the startup, timer, manual and effect scans,
\* every reminder key has at most one notification dispatched.
C4_AtMostOncePerKey ==
  \A n \in BagToSet(notified) : DispatchCount(n.key) = 1

\* a timer tick ran a scan that found a reminder already shown by another scan
C4_Witness ==
  /\ lastScan = [by |-> "timer", skip |-> TRUE]
  /\ \E n \in BagToSet(notified) : n.day = today /\ n.gen = gen

\* C5: a key dispatched in one page load is not dispatched again on the same
\* day in a later page load.
C5_OnceAcrossRestart ==
  \A n, m \in BagToSet(notified) :
    n.key = m.key /\ n.day = m.day => n.gen = m.gen

\* the startup scan after a reload found the reminder of the page load before
\* already shown
C5_Witness ==
  /\ gen > 0
  /\ lastScan = [by |-> "startup", skip |-> TRUE]
  /\ \E n \in BagToSet(notified) : n.day = today /\ n.gen < gen

\* C6: every key of the stored ledger is still in it after every step.
C6_LedgerAppendOnly ==
  [][Range(kvShown.val) \subseteq Range(kvShown'.val)]_vars

\* a scan over a ledger of two keys found one of them and kept both
C6_Witness ==
  /\ Len(kvShown.val) >= 2
  /\ lastScan.skip

\* C7: no notification is dispatched for an event whose date lies before the
\* day of the scan.
C7_NoReminderForPastEvent ==
  \A n \in BagToSet(notified) : n.key[1] - n.day >= 0

----------------------------------------------------------------------------
(* Properties of add while signed out, under SpecLocal *)

\* case folding on the texts of the model
Lower(t) == IF t = "Abgabe" THEN "abgabe" ELSE IF t = "Klausur" THEN "klausur" ELSE t

\* normalize = trim + case-fold
Normalize(t) == Lower(Trim(t))

\* the identity key (date, normalize(text)) of a is that of b
SameIdentity(a, b) == a.date = b.date /\ Normalize(a.text) = Normalize(b.text)

\* C1: an add whose date and normalized text are those of an event of list()
\* is rejected: the step that appends an event to the local events appends
\* none whose identity key is already in list().
C1_DuplicateRejected ==
  [][Len(events') > Len(events) =>
       ~\E ev \in Range(allEvents) : SameIdentity(ev, events'[Len(events')])]_vars

----------------------------------------------------------------------------
(* Properties of the session and of add while signed in, under SpecSession *)

\* the requests of kind k in flight that the backend has not answered yet
Unanswered(k) == {t \in BagToSet(tasks) : t.kind = k /\ t.stage = "sent"}

\* how many requests of kind k are in flight, answered or not
InFlight(k) ==
  LET ts == {t \in BagToSet(tasks) : t.kind = k}
  IN IF ts = {} THEN 0 ELSE BagCardinality([t \in ts |-> CopiesIn(t, tasks)])

\* C2: a step that appends to the local events or to the stored local events
\* is taken without a session, and a step that sends a create request is taken
\* with one; the reply to a create request leaves the local events alone.
C2_ExclusiveRouting ==
  [][/\ (Len(events') > Len(events) \/ Len(kvEvents'.val) > Len(kvEvents.val)) => ~HasSession
     /\ (Unanswered("create")' \ Unanswered("create") # {} \/ InFlight("create")' > InFlight("create"))
          => HasSession /\ events' = events /\ kvEvents' = kvEvents
     /\ InFlight("create")' < InFlight("create") => events' = events /\ kvEvents' = kvEvents]_vars

\* an event was added locally while signed out, and after the login an add
\* has sent a create request
C2_Witness ==
  /\ HasSession
  /\ Len(events) > 0
  /\ Unanswered("create") # {}

\* C8: an access token is present, in memory and in the store, only if an
\* identity is present.
C8_TokenImpliesIdentity ==
  /\ accessToken # NoToken => user # NoUser
  /\ kvAccess # NoToken => kvUser # NoUser

\* the reply to a create request, handled in this step, reports a failure
CreateFailedStep == CreateReply /\ lastReply'[2] # "ok"

\* C9: the step that handles a failed create request sends exactly one
\* token refresh request (whose reply would be followed by one retry).
C9_RefreshAfterFailedCreate ==
  [][CreateFailedStep => InFlight("refresh")' = InFlight("refresh") + 1]_vars

----------------------------------------------------------------------------
(* Properties of the mirror, of the token refresh, of login and logout and  *)
(* of the removal of mirrored events                                        *)

\* C11: no request in flight is the third events request or the second
\* refresh request of one call of fetchGoogleCalendarEvents.
C11_TwoFetchesOneRefresh ==
  \A t \in BagToSet(tasks) : t.fetches <= 2 /\ t.refreshes <= 1

\* C12: once the retried events request of a call has failed, with a
\* session present, no later step of that call (the handling of that failure,
\* the handling of the reply to a further refresh) removes the session or
\* changes the mirror or the local events.
C12_RetryFailedLeavesState ==
  [][\A t \in BagToSet(tasks) :
       /\ HasSession
       /\ t.fetches = 2
       /\ (fetchReply(t) /\ Failed(t)) \/ refreshReply(t)
       => /\ HasSession'
          /\ googleEvents' = googleEvents
          /\ events' = events]_vars

\* the reply to a refresh request, handled in this step, is not a success
RefreshFailedStep == RefreshReply /\ lastReply'[2] # "ok"

\* C13: the step that handles a refresh request that failed, in any of the
\* three ways, removes identity, access token and refresh token from memory
\* and from the store and sends no request.
C13_RefreshFailureClearsSession ==
  [][RefreshFailedStep =>
       /\ user' = NoUser /\ accessToken' = NoToken /\ refreshToken' = NoToken
       /\ kvUser' = NoUser /\ kvAccess' = NoToken /\ kvRefresh' = NoToken
       /\ nreq' = nreq]_vars

\* no refresh token is held, in memory or in the store
NoRefreshTokenStored == refreshToken = NoToken /\ kvRefresh = NoToken

\* C14: a failed events request handled while no refresh token is stored
\* sends no refresh request and leaves identity, access token, mirror and
\* store as they were.
C14_NoTokenNoRefreshRequest ==
  [][\A t \in BagToSet(tasks) :
       NoRefreshTokenStored /\ fetchReply(t) /\ Failed(t)
       => /\ nreq' = nreq
          /\ UNCHANGED <<user, accessToken, googleEvents, kvUser, kvAccess, kvRefresh, kvEvents>>]_vars

\* C15: a failed events request of the present session handled while no
\* refresh token is stored logs the user out: identity and access token are
\* removed and the mirror is emptied.
C15_NoTokenForcesLogout ==
  [][\A t \in BagToSet(tasks) :
       /\ HasSession /\ t.token = accessToken
       /\ NoRefreshTokenStored /\ fetchReply(t) /\ Failed(t)
       => /\ user' = NoUser /\ accessToken' = NoToken
          /\ kvUser' = NoUser /\ kvAccess' = NoToken
          /\ googleEvents' = <<>>]_vars

\* handleGoogleSuccess has failed in this step, before or after the token exchange
LoginFailedStep == (LoginReply \/ LoginNoCode) /\ lastReply'[2] # "ok"

\* C16: the step in which a login fails leaves identity, access token,
\* refresh token, mirror and every store key as they were.
C16_FailedLoginLeavesState ==
  [][LoginFailedStep =>
       UNCHANGED <<user, accessToken, refreshToken, googleEvents,
                   kvUser, kvAccess, kvRefresh, kvEvents, kvSettings, kvShown>>]_vars

\* a token exchange was answered with a status that is not OK while the
\* mirror still held entries that a late reply had put there after a logout
C16_Witness ==
  /\ lastReply = <<"login", "notOk">>
  /\ user = NoUser
  /\ googleEvents # <<>>

\* C17: right after a logout list() is the local events, and the local
\* events and the stored local events are what they were before it.
C17_LogoutLeavesLocalEvents ==
  [][Logout => allEvents' = events' /\ events' = events /\ kvEvents' = kvEvents]_vars

\* the user logged out after the mirror had been filled by a fetch, with a
\* local event present, and no reply has been handled since
C17_Witness ==
  /\ user = NoUser /\ kvUser = NoUser
  /\ events # <<>>
  /\ googleEvents = <<>>
  /\ provider = StoredProvider
  /\ lastReply = <<"fetch", "ok">>

\* C18: with no local events, the step that handles a successful events
\* request of the present session makes list() exactly the events of the
\* response.
C18_ReloginListIsFetched ==
  [][\A t \in BagToSet(tasks) :
       /\ HasSession /\ t.token = accessToken
       /\ events = <<>>
       /\ fetchReply(t) /\ t.result = "ok"
       => allEvents' = t.payload.events]_vars

\* after a logout the user has logged in again (the refresh token is not the
\* one of the stored session) and an events request has filled the mirror
C18_Witness ==
  /\ HasSession
  /\ refreshToken \notin {NoToken, StoredToken}
  /\ events = <<>>
  /\ googleEvents # <<>>
  /\ lastReply = <<"fetch", "ok">>

\* C19: the step that handles a successful events request makes the mirror
\* exactly the events of the response.
C19_FetchReplacesMirror ==
  [][\A t \in BagToSet(tasks) :
       fetchReply(t) /\ t.result = "ok" => googleEvents' = t.payload.events]_vars

\* a successful events request was handled and the mirror lacks an entry that
\* the provider holds: one of another month, or one created in between
C19_Witness ==
  /\ HasSession
  /\ lastReply = <<"fetch", "ok">>
  /\ \E e \in Range(provider) : e \notin Range(googleEvents)

\* C20: removing a mirrored event without a session sends nothing and
\* changes nothing; with a session the mirror is left alone by the step that
\* sends the delete request and by the handling of a reply that is not a success.
C20_RemoteRemoveNeedsSessionAndSuccess ==
  [][/\ RemoveGoogle /\ ~HasSession =>
          /\ nreq' = nreq /\ tasks' = tasks
          /\ UNCHANGED <<events, googleEvents, kvEvents, provider, user, accessToken,
                         refreshToken, kvUser, kvAccess, kvRefresh>>
     /\ RemoveGoogle /\ HasSession => googleEvents' = googleEvents
     /\ \A t \in BagToSet(tasks) :
          deleteReply(t) /\ t.result # "ok" => googleEvents' = googleEvents]_vars

\* the delete button of a mirrored event was pressed while no session was present
C20_Witness ==
  /\ lastReply = <<"delete", "requiresAuth">>
  /\ ~HasSession
  /\ googleEvents # <<>>

\* C21: with a session, removing a mirrored event sends one delete request
\* and nothing else; handling a delete reply that is not a success sends no
\* request (no retry, no token refresh) and leaves the mirror and the
\* session as they are.
C21_OneDeleteNoRetry ==
  [][/\ RemoveGoogle /\ HasSession =>
          /\ nreq' = nreq + 1
          /\ \E ev \in Range(googleEvents) :
               tasks' = tasks (+) One(Task("delete", accessToken, "", 0, ev.id, current, refreshToken))
     /\ \A t \in BagToSet(tasks) :
          deleteReply(t) /\ t.result # "ok" =>
            /\ nreq' = nreq
            /\ tasks' = tasks (-) One(t)
            /\ UNCHANGED <<googleEvents, provider, user, accessToken, refreshToken,
                           kvUser, kvAccess, kvRefresh>>]_vars

\* a delete request of the session has failed and its event is still mirrored
C21_Witness ==
  /\ HasSession
  /\ lastReply \in {<<"delete", "notOk">>, <<"delete", "network">>}
  /\ googleEvents # <<>>
  /\ \A t \in BagToSet(tasks) : t.kind # "delete"

\* new holds the entries of old in their order with their ids and dates;
\* the entries with the id have the text, every other entry is as it was
SameButText(old, new, id, text) ==
  /\ Len(new) = Len(old)
  /\ \A i \in 1..Len(old) :
       /\ new[i].id = old[i].id
       /\ new[i].date = old[i].date
       /\ new[i].source = old[i].source
       /\ new[i].text = (IF old[i].id = id THEN text ELSE old[i].text)

\* C22: saving an edit with a text that is not blank changes, for a local
\* event, only the text of the event with that id and writes the local
\* events to the store; for a mirrored event it sends one update request
\* with the date the mirror holds and leaves the events alone, and the reply
\* changes only the text of that event in the mirror, and only when it is a
\* success.
C22_UpdateChangesOnlyText ==
  [][/\ \A ev \in Range(allEvents) :
          /\ saveEditEvent(ev.id, "Referat") /\ sessionUnchanged /\ envUnchanged =>
               IF ev.id.google
               THEN /\ events' = events /\ googleEvents' = googleEvents /\ kvEvents' = kvEvents
                    /\ HasSession =>
                         tasks' = tasks (+) One(Task("update", accessToken, "Referat", ev.date,
                                                     ev.id, current, refreshToken))
                    /\ ~HasSession => tasks' = tasks
               ELSE /\ SameButText(events, events', ev.id, "Referat")
                    /\ kvEvents' = Stored(events')
                    /\ googleEvents' = googleEvents /\ tasks' = tasks
     /\ \A t \in BagToSet(tasks) :
          updateReply(t) =>
            /\ events' = events /\ kvEvents' = kvEvents
            /\ IF t.result = "ok"
               THEN SameButText(googleEvents, googleEvents', t.id, t.title)
               ELSE googleEvents' = googleEvents]_vars

\* a local event and a mirrored event carry the edited text, the local
\* events are in the store, and the update request has succeeded
C22_Witness ==
  /\ lastReply = <<"update", "ok">>
  /\ \E e \in Range(events) : e.text = "Referat"
  /\ \E e \in Range(googleEvents) : e.text = "Referat"
  /\ Len(googleEvents) >= 2
  /\ kvEvents = Stored(events)

\* C26: when window.addCalendarEvent ends with 'Termin hinzugefügt!', the
\* event is in list().
C26_SuccessOnlyWhenAdded ==
  [][\A date \in SessionDays, text \in SessionTexts :
       AddChat({date}, {text}) /\ lastReply' = <<"add", "added">>
         => \E ev \in Range(allEventsOf(events', googleEvents')) :
              ev.date = date /\ ev.text = text]_vars

\* C30: while the store works, the local events in the store are the local
\* events in memory.
C30_StoreEqualsMemory == storeMode = "ok" => loadEvents = events

\* the page was loaded again and shows an event whose text was edited
C30_Witness ==
  /\ gen > 0
  /\ storeMode = "ok"
  /\ \E e \in Range(events) : e.text = "Referat"
  /\ kvEvents = Stored(events)

----------------------------------------------------------------------------
(* Properties of the lead times and of a failing store *)

\* the notifications constructed in this step
NewlyDispatched ==
  {n \in BagToSet(notified') : CopiesIn(n, notified') > CopiesIn(n, notified)}

\* the lead time stored for the class of an event text, as stored
StoredLead(text) == IF IsExam(text) THEN kvSettings.val.exams ELSE kvSettings.val.tasks

\* the default lead time of the class of an event text
DefaultLead(text) == IF IsExam(text) THEN 7 ELSE 1

\* C23: with notification permission and no settings stored, the scan that
\* runs when an event is added dispatches a notification for it if it is
\* dated today or at the default lead time of its class.
C23_DefaultsWhenNoSettings ==
  [][/\ permission /\ ~kvSettings.present /\ storeMode = "ok"
     /\ Len(events') > Len(events)
     => LET ev == events'[Len(events')]
            delta == ev.date - today
        IN delta = 0 \/ delta = DefaultLead(ev.text)
             => \E n \in BagToSet(notified') : n.key = <<ev.date, ev.text, delta>>]_vars

\* C24: a notification is dispatched for an event dated today or later only
\* on the day on which its distance in days is the stored lead time of its
\* class, 0 included, or is 0.
C24_DueIffLeadOrToday ==
  [][\A n \in NewlyDispatched :
       LET delta == n.key[1] - today
       IN delta >= 0 => delta = StoredLead(n.key[2]) \/ delta = 0]_vars

\* C25: when the two stored lead times differ, no notification is dispatched
\* for an exam at the distance of the task lead time nor for a task at the
\* distance of the exam lead time, for distances above 0.
C25_LeadFollowsClass ==
  [][\A n \in NewlyDispatched :
       LET delta == n.key[1] - today
       IN delta > 0 /\ kvSettings.val.tasks # kvSettings.val.exams
          => /\ IsExam(n.key[2]) => delta # kvSettings.val.tasks
             /\ ~IsExam(n.key[2]) => delta # kvSettings.val.exams]_vars

\* C27: once the store has stopped working, an add made while signed out
\* keeps every local event that was in memory before it.
C27_EarlierLocalEventsStay ==
  [][storeMode # "ok" /\ ~HasSession /\ nextId' > nextId
     => \A ev \in Range(events) : ev \in Range(events')]_vars

\* C28: while writes of the ledger fail, no notification is dispatched a
\* second time on the same day in the same page load.
C28_NoRedispatchWhenWritesFail ==
  storeMode = "writeFail" =>
    \A n \in BagToSet(notified) : CopiesIn(n, notified) = 1

\* C29: a lead-time notification ("Morgen", "In N Tagen") is dispatched on
\* the day on which the event is as many days away as its lead time, never
\* on a later day, when the event is nearer.
C29_NeverLate ==
  [][\A n \in NewlyDispatched :
       LET delta == n.key[1] - today
       IN n.key[3] > 0 => delta >= n.key[3]]_vars

----------------------------------------------------------------------------
(* Message texts, late replies, and scans over several days *)

\* C31: the body of a dispatched notification follows the distance in
\* calendar days between today and the date of the event: "Heute" exactly
\* at 0, "Morgen" exactly at 1, else "In N Tagen" with N the distance; the
\* text is the text of the event.
C31_BodyByDayDelta ==
  [][\A n \in NewlyDispatched :
       LET delta == n.key[1] - today
       IN /\ n.body.kind = "Heute" <=> delta = 0
          /\ n.body.kind = "Morgen" <=> delta = 1
          /\ n.body.kind = "In N Tagen" => n.body.n = delta
          /\ n.body.text = n.key[2]]_vars

\* C32: while no session is present the mirror is empty and list() holds
\* local events only.
C32_NoSessionEmptyMirror ==
  ~HasSession => /\ googleEvents = <<>>
                 /\ \A ev \in Range(allEvents) : ~ev.id.google

\* C33: when the last of the events requests in flight is answered with
\* success, after another one was, the mirror holds events of the displayed
\* month only.
C33_MirrorIsViewedPeriod ==
  [][\A t \in BagToSet(tasks) :
       /\ fetchReply(t) /\ t.result = "ok"
       /\ lastReply = <<"fetch", "ok">>
       /\ HasSession /\ nreq <= MaxReq
       /\ \A u \in BagToSet(tasks') : u.kind # "fetch"
       => \A e \in Range(googleEvents') : MonthOf(e.date) = current]_vars

\* C34: window.addCalendarEvent, called with a session for a date and text
\* for which a create request is still in flight, sends no further create
\* request.
C34_NoSecondCreateWhilePending ==
  [][\A date \in SessionDays, text \in SessionTexts :
       /\ AddChat({date}, {text}) /\ HasSession
       /\ \E t \in BagToSet(tasks) : t.kind = "create" /\ t.date = date /\ t.title = text
       => InFlight("create")' = InFlight("create")]_vars

LedgerKeys(kv) == IF kv.present THEN Range(kv.val) ELSE {}

\* C36: a key that enters the stored ledger in a step has a notification
\* dispatched for it in that step, and a step taken while a scan would
\* return early (no permission, no readable settings) leaves the stored
\* ledger as it is.
C36_LedgerOnlyByDispatch ==
  [][/\ \A k \in LedgerKeys(kvShown') \ LedgerKeys(kvShown) :
          \E n \in NewlyDispatched : n.key = k
     /\ ScanReturnsEarly => kvShown' = kvShown]_vars

\* the only event ever added is dated today; the one notification there is
\* is its "Heute", and the last scan that did not return early was a timer
\* scan that found no key already in the ledger: the scan that ran when the
\* event was added had returned early and the timer scan has dispatched
C36_Witness ==
  /\ permission /\ kvSettings.present
  /\ today = 0 /\ gen = 0 /\ nextId = 1 /\ Len(events) = 1
  /\ lastScan = [by |-> "timer", skip |-> FALSE]
  /\ BagCardinality(notified) = 1
  /\ \E n \in BagToSet(notified) :
       /\ n.key = <<events[1].date, events[1].text, 0>>
       /\ n.day = 0
       /\ n.key \in LedgerKeys(kvShown)

\* how many notifications were dispatched for the event ev, at any distance
EventDispatchCount(ev) ==
  LET ns == {n \in BagToSet(notified) : n.key[1] = ev.date /\ n.key[2] = ev.text}
  IN IF ns = {} THEN 0 ELSE BagCardinality([n \in ns |-> CopiesIn(n, notified)])

\* C37: with the stored lead times unchanged, an event of the calendar has
\* at most two notifications dispatched for it, and at most one when the
\* stored lead time of its class is 0.
C37_AtMostTwoPerEvent ==
  \A ev \in Range(events) :
    /\ EventDispatchCount(ev) <= 2
    /\ StoredLead(ev.text) = 0 => EventDispatchCount(ev) <= 1

\* no two entries of evs have the same date and the same normalized text
NoDuplicates(evs) ==
  \A i, j \in 1..Len(evs) : i # j => ~SameIdentity(evs[i], evs[j])

\* C38: saving an edit in a calendar without duplicates leaves a calendar
\* without duplicates.
C38_UpdateKeepsUnique ==
  [][\A ev \in Range(allEvents), text \in EditTexts :
       /\ saveEditEvent(ev.id, text) /\ sessionUnchanged /\ envUnchanged
       /\ NoDuplicates(allEvents)
       => NoDuplicates(allEventsOf(events', googleEvents'))]_vars

\* how many bot replies and error messages the list holds
Answers(msgs) == Cardinality({i \in 1..Len(msgs) : msgs[i].kind \in {"reply", "error"}})

\* C39: handling a chat response never takes a bot reply out of the message
\* list, a response with a text and a failure each add one, and once no
\* chat request is in flight the list holds no typing indicator.
C39_RepliesKeptNoTypingLeft ==
  [][\A t \in BagToSet(tasks) :
       chatReply(t) =>
         /\ Answers(messages') >= Answers(messages)
         /\ t.result # "successFalse" => Answers(messages') = Answers(messages) + 1
         /\ InFlight("chat")' = 0 /\ nreq <= MaxReq =>
              \A i \in 1..Len(messages') : messages'[i] # Typing]_vars

====
